---------------------------- MODULE Spec2Model ----------------------------
(***************************************************************************)
(* A model of src/utils.py: the candidate-set grid (SudokuGrid) with its   *)
(* subset-elimination reducer, and the lookahead solver (SudokuSolver).    *)
(*                                                                         *)
(* Python lists are sequences, except the cell list self.grid, which is a  *)
(* function on 0..side^2-1 so that the flattened indices of the source are *)
(* used unchanged.  An Optional argument is a sequence of length 0 (None)  *)
(* or 1 (the value).                                                       *)
(***************************************************************************)
EXTENDS Integers, Sequences, FiniteSets, TLC

VARIABLES
    shape,      \* input: <<m, n>>
    segments,   \* input: Optional list of groups of <<row, col>>
    board,      \* input: list of rows of characters (solver only)
    grid,       \* the SudokuGrid object (self / self.grid of the solver)
    pc,         \* position of the running program
    idx,        \* solve(): loop variable of line 112
    good_set,   \* solve(): line 115
    new_grid,   \* solve(): the trial grids of the current cell, by value v,
                \*          each as it stands after line 120
    options,    \* simplify(): line 84 / 90
    passes,     \* history: reduce_options() calls made by the running simplify()
    prev,       \* history: the cell list when the last operation was called
                \*          (solve(): when the current pass of line 111 began)
    lastOp,     \* history: the last operation called on the grid
    nsets       \* history: number of set_values() calls made by the caller
                \*          (solve(): those of line 124), counted up to MaxSets

vars == <<shape, segments, board, grid, pc, idx, good_set, new_grid,
          options, passes, prev, lastOp, nsets>>

-----------------------------------------------------------------------------
(* Bounds of the model *)

MaxM == 3                 \* SpecNew: m ranges over 1..MaxM
MaxN == 2                 \* SpecNew: n ranges over 1..MaxN
MaxSets == 2              \* SpecGrid: set_values() calls per run; Spec: replacements counted
NumBlankable == 2         \* Spec: the cells 0..NumBlankable-1 of a board may be blank

(* Constants of the program *)

FormatWidth == 9          \* '{:9b}'
SubsetBits == 9           \* range(9)
DefaultM == 3             \* m: int = 3
DefaultN == 3             \* n: int = 3

-----------------------------------------------------------------------------
(* Python helpers *)

Range(s) == {s[k] : k \in DOMAIN s}

PyRange(n) == [k \in 1..n |-> k - 1]

Some(x) == <<x>>
None == <<>>

RECURSIVE Flatten(_)
Flatten(ss) == IF ss = <<>> THEN <<>> ELSE Head(ss) \o Flatten(Tail(ss))

RECURSIVE Insert(_, _)
Insert(s, x) ==
    IF s = <<>> THEN <<x>>
    ELSE IF x <= Head(s) THEN <<x>> \o s
    ELSE <<Head(s)>> \o Insert(Tail(s), x)

RECURSIVE sorted(_)
sorted(s) == IF s = <<>> THEN <<>> ELSE Insert(sorted(Tail(s)), Head(s))

RECURSIVE BinDigits(_)
BinDigits(i) ==
    LET d == IF i % 2 = 1 THEN "1" ELSE "0"
    IN IF i < 2 THEN <<d>> ELSE Append(BinDigits(i \div 2), d)

RECURSIVE PadLeft(_, _)
PadLeft(s, w) == IF Len(s) >= w THEN s ELSE PadLeft(<<" ">> \o s, w)

\* '{:9b}'.format(i): binary digits, right-aligned in a field of at least 9
Format9b(i) == PadLeft(BinDigits(i), FormatWidth)

------------------------------------------------------------------------\* a list or a dict as the program holds it: every entry computed, once
Stored(f) == f @@ <<>>

-----
(* SudokuGrid.__init__ *)

get_subset(i) ==
    LET bits == Format9b(i)
    IN {k + 1 : k \in {j \in 0..(SubsetBits - 1) : bits[j + 1] = "1"}}

\* self.subsets: fixed at construction and never reassigned, so it is kept
\* as a function of total instead of a component of the state
subsets(total) == Stored([i \in 1..(2^total - 1) |-> get_subset(i)])

RowAreas(total) ==
    [i \in 1..total |-> [j \in 1..total |-> total * (i - 1) + (j - 1)]]

ColAreas(total) ==
    [j \in 1..total |-> [i \in 1..total |-> total * (i - 1) + (j - 1)]]

\* the block formula with m and n exchanged in the origin of a block
DefaultAreasMixed(m, n) ==
    LET total == m * n
    IN [k \in 1..(n * m) |->
          LET i == (k - 1) \div m
              j == (k - 1) % m
          IN [q \in 1..(m * n) |->
                LET r == (q - 1) \div n
                    s == (q - 1) % n
                IN total * n * i + m * j + total * r + s]]

\* lines 30-31
DefaultAreas(m, n) ==
    LET total == m * n
    IN [k \in 1..(n * m) |->
          LET i == (k - 1) \div m
              j == (k - 1) % m
          IN [q \in 1..(m * n) |->
                LET r == (q - 1) \div n
                    s == (q - 1) % n
                IN total * m * i + n * j + total * r + s]]

SegmentIdx(total, segs) ==
    [g \in 1..Len(segs) |->
        [k \in 1..Len(segs[g]) |-> total * segs[g][k][1] + segs[g][k][2]]]

\* `if segments:' is false for None and for an empty list
Truthy(optsegs) == optsegs # None /\ optsegs[1] # <<>>

\* the three assertions of lines 22-27
SegmentsAccepted(total, segs) ==
    /\ Len(segs) = total
    /\ \A g \in 1..Len(segs) : Len(segs[g]) = total
    /\ sorted(Flatten(SegmentIdx(total, segs))) = PyRange(total * total)

InitAccepts(m, n, optsegs) ==
    Truthy(optsegs) => SegmentsAccepted(m * n, optsegs[1])

SudokuGrid(m, n, optsegs) ==
    LET total == m * n
    IN [dimensions |-> <<total, total>>,
        values     |-> [k \in 1..total |-> k],
        grid       |-> Stored([c \in 0..(total * total - 1) |-> 1..total]),
        areas      |-> RowAreas(total) \o ColAreas(total) \o
                       (IF Truthy(optsegs) THEN SegmentIdx(total, optsegs[1])
                                           ELSE DefaultAreas(m, n))]

\* no object: before construction, or after construction has raised
NoGrid == [dimensions |-> <<0, 0>>, values |-> <<>>, grid |-> <<>>, areas |-> <<>>]

Side(g) == g.dimensions[1]

-----------------------------------------------------------------------------
(* SudokuGrid: defined, is_valid, set_values, reduce_options, simplify *)

defined(g) == [c \in DOMAIN g.grid |-> Cardinality(g.grid[c]) = 1]

validate_area(g, area) ==
    LET vals == UNION {g.grid[area[k]] : k \in 1..Len(area)}
        known == SelectSeq(area, LAMBDA i : defined(g)[i])
        exact_vals == [k \in 1..Len(known) |-> CHOOSE x \in g.grid[known[k]] : TRUE]
    IN (vals = Range(g.values)) /\ (Len(exact_vals) = Cardinality(Range(exact_vals)))

is_valid(g) == \A a \in 1..Len(g.areas) : validate_area(g, g.areas[a])

\* a list index outside 0..len-1 raises IndexError (negative ones are not drawn)
InRange(g, row, col) == (row * Side(g) + col) \in DOMAIN g.grid

set_values(g, row, col, values) ==
    [g EXCEPT !.grid = [@ EXCEPT ![row * Side(g) + col] = values]]

\* lines 80-81: for j in test_idx[k..]: self.grid[j] -= test_set
RECURSIVE Subtract(_, _, _, _)
Subtract(cells, test_idx, test_set, k) ==
    IF k > Len(test_idx) THEN cells
    ELSE Subtract([cells EXCEPT ![test_idx[k]] = cells[test_idx[k]] \ test_set],
                  test_idx, test_set, k + 1)

\* line 79 with >= for ==: fires when at most |test_set| cells are confined
ReduceSubsetAtMost(cells, area, test_set, side) ==
    LET test_idx == SelectSeq(area, LAMBDA i : ~(cells[i] \subseteq test_set))
    IN IF Len(test_idx) >= side - Cardinality(test_set)
       THEN Subtract(cells, test_idx, test_set, 1)
       ELSE cells

\* line 80 with `for j in area': the confined cells lose the subset too
ReduceSubsetWholeArea(cells, area, test_set, side) ==
    LET test_idx == SelectSeq(area, LAMBDA i : ~(cells[i] \subseteq test_set))
    IN IF Len(test_idx) = side - Cardinality(test_set)
       THEN Subtract(cells, area, test_set, 1)
       ELSE cells

\* lines 77-81: one subset of one area
ReduceSubset(cells, area, test_set, side) ==
    LET test_idx == SelectSeq(area, LAMBDA i : ~(cells[i] \subseteq test_set))
    IN IF Len(test_idx) = side - Cardinality(test_set)
       THEN Subtract(cells, test_idx, test_set, 1)
       ELSE cells

\* line 76: the subsets lo..hi in ascending order of idx.  The loop is split
\* in halves, and the first half's result is compared before the second half
\* starts, only to keep the evaluation as shallow and as strict as the loop.
RECURSIVE ReduceRange(_, _, _, _, _, _)
ReduceRange(cells, area, table, side, lo, hi) ==
    IF lo = hi THEN ReduceSubset(cells, area, table[lo], side)
    ELSE LET mid == (lo + hi) \div 2
             half == ReduceRange(cells, area, table, side, lo, mid)
         IN IF half = cells
            THEN ReduceRange(cells, area, table, side, mid + 1, hi)
            ELSE ReduceRange(half, area, table, side, mid + 1, hi)

\* line 75: the areas from a on, in list order
RECURSIVE ReduceAreas(_, _, _, _, _)
ReduceAreas(cells, areas, table, side, a) ==
    IF a > Len(areas) THEN cells
    ELSE LET done == ReduceRange(cells, areas[a], table, side, 1, Len(table))
         IN IF done = cells
            THEN ReduceAreas(cells, areas, table, side, a + 1)
            ELSE ReduceAreas(done, areas, table, side, a + 1)

reduce_options(g) ==
    [g EXCEPT !.grid = ReduceAreas(@, g.areas, subsets(Side(g)), Side(g), 1)]

\* sum([len(x) for x in self.grid]) over the cells lo..hi
RECURSIVE SumLen(_, _, _)
SumLen(cells, lo, hi) ==
    IF lo > hi THEN 0
    ELSE IF lo = hi THEN Cardinality(cells[lo])
    ELSE LET mid == (lo + hi) \div 2
         IN SumLen(cells, lo, mid) + SumLen(cells, mid + 1, hi)

Options(g) == SumLen(g.grid, 0, Side(g) * Side(g) - 1)

\* line 88 with > for ==
BreakFlipped(new_options, old_options) == new_options > old_options

\* line 88 with <= for ==
BreakAtMost(new_options, old_options) == new_options <= old_options

\* line 88: the loop of simplify() stops when a pass leaves the sum unchanged
Break(new_options, old_options) == new_options = old_options

\* lines 85-90, from a grid whose sum of set sizes is opts
RECURSIVE SimplifyLoop(_, _)
SimplifyLoop(g, opts) ==
    LET h == reduce_options(g)
        new_options == Options(h)
    IN IF Break(new_options, opts) THEN h ELSE SimplifyLoop(h, new_options)

simplify(g) == SimplifyLoop(g, Options(g))

-----------------------------------------------------------------------------
(* Inputs of the constructor: region lists around a correct partition *)

Coord(total, c) == <<c \div total, c % total>>

AsSegments(total, areas) ==
    [g \in 1..Len(areas) |-> [k \in 1..Len(areas[g]) |-> Coord(total, areas[g][k])]]

Positions(segs) == {<<g, k>> : g \in 1..Len(segs), k \in 1..Len(segs[1])}

ReplaceCell(segs, p, xy) == [segs EXCEPT ![p[1]][p[2]] = xy]

\* cell p of the list left out
DropCell(segs, p) ==
    [segs EXCEPT ![p[1]] = SubSeq(@, 1, p[2] - 1) \o SubSeq(@, p[2] + 1, Len(@))]

\* the same flattened index written with a column outside the grid
Alias(total, xy) ==
    IF xy[1] > 0 THEN <<xy[1] - 1, xy[2] + total>> ELSE <<xy[1] + 1, xy[2] - total>>

SegmentInputs(m, n) ==
    LET total == m * n
        bases == {AsSegments(total, DefaultAreas(m, n)),
                  AsSegments(total, RowAreas(total)),
                  AsSegments(total, ColAreas(total))}
    IN {None, Some(<<>>)}
       \cup {Some(s) : s \in bases}
       \cup {Some(SubSeq(s, 1, Len(s) - 1)) : s \in bases}
       \cup {Some(Append(s, s[1])) : s \in bases}
       \cup UNION {{Some(DropCell(s, p)) : p \in Positions(s)} : s \in bases}
       \cup UNION {{Some(ReplaceCell(s, p, s[1][1])) : p \in Positions(s)} : s \in bases}
       \cup UNION {{Some(ReplaceCell(s, p, <<total, 0>>)) : p \in Positions(s)} : s \in bases}
       \cup (IF total > 1
             THEN UNION {{Some(ReplaceCell(s, p, Alias(total, s[p[1]][p[2]]))) :
                             p \in Positions(s)} : s \in bases}
             ELSE {})

-----------------------------------------------------------------------------
(* SpecNew: SudokuGrid(m, n, segments) on drawn arguments *)

Idle ==
    /\ idx = 0 /\ good_set = {} /\ new_grid = <<>>
    /\ options = 0 /\ passes = 0 /\ prev = <<>> /\ nsets = 0

InitNew ==
    /\ shape \in {<<m, n>> : m \in 1..MaxM, n \in 1..MaxN}
    /\ segments \in SegmentInputs(shape[1], shape[2])
    /\ board = <<>>
    /\ grid = NoGrid
    /\ pc = "new"
    /\ lastOp = "none"
    /\ Idle

GridInit ==
    /\ pc = "new"
    /\ IF InitAccepts(shape[1], shape[2], segments)
       THEN /\ grid' = SudokuGrid(shape[1], shape[2], segments)
            /\ pc' = "idle"
            /\ lastOp' = "__init__"
       ELSE /\ pc' = "AssertionError"
            /\ UNCHANGED <<grid, lastOp>>
    /\ UNCHANGED <<shape, segments, board, idx, good_set, new_grid,
                   options, passes, prev, nsets>>

NextNew == GridInit

SpecNew == InitNew /\ [][NextNew]_vars

-----------------------------------------------------------------------------
(* SpecGrid: a caller of one SudokuGrid: set_values, reduce_options and     *)
(* simplify in any order.  simplify() is followed pass by pass.             *)

GridShapes == {<<1, 1>>, <<2, 2>>, <<2, 3>>}

SetCells == {<<0, 0>>, <<1, 1>>}

ValueInputs(total) ==
    {{}, {1}} \cup {((total - k + 1)..total) \cap (1..total) : k \in 1..2}

InitGrid ==
    /\ shape \in GridShapes
    /\ segments = None
    /\ board = <<>>
    /\ grid = SudokuGrid(shape[1], shape[2], segments)
    /\ pc = "idle"
    /\ lastOp = "__init__"
    /\ idx = 0 /\ good_set = {} /\ new_grid = <<>>
    /\ options = 0 /\ passes = 0 /\ nsets = 0
    /\ prev = grid.grid

SetValues(row, col, values) ==
    /\ pc = "idle"
    /\ nsets < MaxSets
    /\ InRange(grid, row, col)
    /\ grid' = set_values(grid, row, col, values)
    /\ prev' = grid.grid
    /\ lastOp' = "set_values"
    /\ nsets' = nsets + 1
    /\ UNCHANGED <<shape, segments, board, pc, idx, good_set, new_grid, options, passes>>

ReduceOptions ==
    /\ pc = "idle"
    /\ grid' = reduce_options(grid)
    /\ prev' = grid.grid
    /\ lastOp' = "reduce_options"
    /\ UNCHANGED <<shape, segments, board, pc, idx, good_set, new_grid, options, passes, nsets>>

\* line 84
SimplifyCall ==
    /\ pc = "idle"
    /\ options' = Options(grid)
    /\ passes' = 0
    /\ prev' = grid.grid
    /\ lastOp' = "simplify"
    /\ pc' = "simplify"
    /\ UNCHANGED <<shape, segments, board, grid, idx, good_set, new_grid, nsets>>

\* lines 86-90: one turn of the loop
SimplifyPass ==
    /\ pc = "simplify"
    /\ grid' = reduce_options(grid)
    /\ passes' = passes + 1
    /\ LET new_options == Options(grid')
       IN IF Break(new_options, options)
          THEN pc' = "idle" /\ UNCHANGED options
          ELSE pc' = "simplify" /\ options' = new_options
    /\ UNCHANGED <<shape, segments, board, idx, good_set, new_grid, prev, lastOp, nsets>>

NextGrid ==
    \/ \E rc \in SetCells : \E values \in ValueInputs(Side(grid)) :
          SetValues(rc[1], rc[2], values)
    \/ ReduceOptions
    \/ SimplifyCall
    \/ SimplifyPass

SpecGrid == InitGrid /\ [][NextGrid]_vars

-----------------------------------------------------------------------------
(* SudokuSolver.__init__ *)

\* the strings int() reads as 0, 1, 2, ...
Numerals == <<"0", "1", "2", "3", "4", "5", "6", "7", "8", "9", "10">>

int(str) == (CHOOSE k \in 1..Len(Numerals) : Numerals[k] = str) - 1

BoardCell(b, total, c) == b[(c \div total) + 1][(c % total) + 1]

\* lines 98-101
BoardShapeAccepted(total, b) ==
    /\ Len(b) = total
    /\ \A i \in 1..Len(b) : Len(b[i]) = total

\* line 106, for every cell that is not '.'
BoardValuesAccepted(g, b) ==
    \A c \in DOMAIN g.grid :
        BoardCell(b, Side(g), c) # "." => int(BoardCell(b, Side(g), c)) \in Range(g.values)

\* lines 103-107
Seed(g, b) ==
    [g EXCEPT !.grid = Stored([c \in DOMAIN g.grid |->
        IF BoardCell(b, Side(g), c) # "." THEN {int(BoardCell(b, Side(g), c))}
                                          ELSE g.grid[c]])]

-----------------------------------------------------------------------------
(* Inputs of the solver *)

\* the example boards of lines 128-151
ExampleBoards ==
    {<<<<"3", "4", "5", ".", ".", ".", ".", ".", ".">>,
      <<".", ".", "6", ".", ".", "1", ".", ".", ".">>,
      <<"8", ".", "1", ".", "7", ".", "2", ".", ".">>,
      <<".", ".", "3", ".", ".", "8", ".", ".", ".">>,
      <<"6", ".", ".", ".", ".", ".", ".", "5", ".">>,
      <<".", ".", "4", "1", "9", ".", "6", ".", ".">>,
      <<".", ".", ".", "6", ".", "5", "1", ".", "3">>,
      <<".", ".", ".", ".", ".", ".", "7", ".", ".">>,
      <<".", ".", ".", ".", ".", "4", ".", ".", ".">>>>,
     <<<<"4", ".", ".", ".", ".", ".", ".", "1", ".">>,
      <<".", "7", ".", ".", ".", ".", ".", ".", ".">>,
      <<".", ".", "1", ".", "6", ".", ".", "3", ".">>,
      <<"2", ".", "6", "8", ".", ".", "1", "4", ".">>,
      <<".", "3", "9", "4", ".", ".", "2", ".", ".">>,
      <<".", ".", ".", ".", "7", ".", ".", "9", "3">>,
      <<".", ".", ".", ".", ".", "8", "4", "2", ".">>,
      <<"3", ".", ".", ".", ".", ".", ".", "8", "9">>,
      <<"8", ".", "4", ".", ".", "2", ".", ".", "1">>>>}

\* a solved board of the m x n block grid
BaseSolution(m, n) ==
    [c \in 0..(m * n * m * n - 1) |->
        LET r == c \div (m * n)
            k == c % (m * n)
        IN ((n * (r % m) + (r \div m) + k) % (m * n)) + 1]

BaseBoard(m, n) ==
    [i \in 1..(m * n) |-> [j \in 1..(m * n) |->
        Numerals[BaseSolution(m, n)[(m * n) * (i - 1) + (j - 1)] + 1]]]

Blanked(b, total, B) ==
    [i \in 1..Len(b) |-> [j \in 1..Len(b[i]) |->
        IF (total * (i - 1) + (j - 1)) \in B THEN "." ELSE b[i][j]]]

\* the solved board with some of its first cells blank; the solved board with
\* its last cell repeating the first of its row, or out of range; a board one
\* row short, and one with its last row one cell short
BoardInputs(m, n) ==
    LET total == m * n
        b == BaseBoard(m, n)
    IN {Blanked(b, total, B) : B \in SUBSET (0..(NumBlankable - 1))}
       \cup {[b EXCEPT ![total][total] = ch] : ch \in {b[total][1], Numerals[total + 2]}}
       \cup {SubSeq(b, 1, total - 1)}
       \cup {[b EXCEPT ![total] = SubSeq(@, 1, total - 1)]}

\* the 2x2 grid of 1x2 blocks on every such board, and on the board with
\* one blank under supplied regions (the columns, none, one group only); the
\* 9x9 grid on every such board and on the example boards; the 10x10 grid
\* on the board with one blank
SolverInputs ==
    {<<<<1, 2>>, None, b>> : b \in BoardInputs(1, 2)}
    \cup {<<<<1, 2>>, sg, Blanked(BaseBoard(1, 2), 2, {0})>> :
             sg \in {Some(AsSegments(2, ColAreas(2))), Some(<<>>),
                     Some(SubSeq(AsSegments(2, ColAreas(2)), 1, 1))}}
    \cup {<<<<3, 3>>, None, b>> : b \in BoardInputs(3, 3) \cup ExampleBoards}
    \cup {<<<<2, 5>>, None, Blanked(BaseBoard(2, 5), 10, {0})>>}

-----------------------------------------------------------------------------
(* Spec: SudokuSolver(shape, board, segments) followed by solve() *)

Init ==
    /\ \E inp \in SolverInputs : shape = inp[1] /\ segments = inp[2] /\ board = inp[3]
    /\ grid = NoGrid
    /\ pc = "new"
    /\ lastOp = "none"
    /\ Idle

\* lines 98-107
SolverInit ==
    /\ pc = "new"
    /\ LET total == shape[1] * shape[2]
           g == SudokuGrid(shape[1], shape[2], segments)
       IN IF /\ BoardShapeAccepted(total, board)
             /\ InitAccepts(shape[1], shape[2], segments)
             /\ BoardValuesAccepted(g, board)
          THEN /\ grid' = Seed(g, board)
               /\ pc' = "solve"
               /\ lastOp' = "__init__"
          ELSE /\ pc' = "AssertionError"
               /\ UNCHANGED <<grid, lastOp>>
    /\ UNCHANGED <<shape, segments, board, idx, good_set, new_grid,
                   options, passes, prev, nsets>>

\* line 110
Solve ==
    /\ pc = "solve"
    /\ grid' = simplify(grid)
    /\ pc' = "while"
    /\ lastOp' = "solve"
    /\ UNCHANGED <<shape, segments, board, idx, good_set, new_grid,
                   options, passes, prev, nsets>>

\* line 111; prev keeps the cells as the pass finds them
While ==
    /\ pc = "while"
    /\ IF \A c \in DOMAIN grid.grid : defined(grid)[c]
       THEN pc' = "return" /\ UNCHANGED <<idx, prev>>
       ELSE pc' = "for" /\ idx' = 0 /\ prev' = grid.grid
    /\ UNCHANGED <<shape, segments, board, grid, good_set, new_grid,
                   options, passes, lastOp, nsets>>

\* lines 112-115
For ==
    /\ pc = "for"
    /\ IF idx >= Side(grid) * Side(grid)
       THEN pc' = "while" /\ UNCHANGED <<idx, good_set>>
       ELSE IF defined(grid)[idx]
       THEN pc' = "for" /\ idx' = idx + 1 /\ UNCHANGED good_set
       ELSE pc' = "trials" /\ good_set' = {} /\ UNCHANGED idx
    /\ UNCHANGED <<shape, segments, board, grid, new_grid,
                   options, passes, prev, lastOp, nsets>>

\* lines 117-120 for the value v of cell i of the live grid g
Trial(g, i, v) ==
    LET fresh == SudokuGrid(DefaultM, DefaultN, None)
        row == i \div Side(g)
        col == i % Side(g)
        copied == [fresh EXCEPT !.grid =
                      Stored([c \in DOMAIN fresh.grid |->
                          IF c \in DOMAIN g.grid THEN g.grid[c] ELSE fresh.grid[c]])]
    IN set_values(copied, row, col, {v})

\* line 119 raises IndexError when the live grid has more cells than the new one
CopyFits(g) ==
    DOMAIN g.grid \subseteq DOMAIN SudokuGrid(DefaultM, DefaultN, None).grid

\* lines 116-123: the trials of cell idx, one per value
Trials ==
    /\ pc = "trials"
    /\ IF grid.grid[idx] # {} /\ ~CopyFits(grid)
       THEN pc' = "IndexError" /\ UNCHANGED <<good_set, new_grid>>
       ELSE /\ new_grid' = [v \in grid.grid[idx] |-> Trial(grid, idx, v)]
            /\ good_set' = {v \in grid.grid[idx] : is_valid(simplify(Trial(grid, idx, v)))}
            /\ pc' = "update"
    /\ UNCHANGED <<shape, segments, board, grid, idx,
                   options, passes, prev, lastOp, nsets>>

\* line 124
Update ==
    /\ pc = "update"
    /\ grid' = set_values(grid, idx \div Side(grid), idx % Side(grid), good_set)
    /\ nsets' = IF nsets < MaxSets THEN nsets + 1 ELSE nsets
    /\ pc' = "propagate"
    /\ UNCHANGED <<shape, segments, board, idx, good_set, new_grid,
                   options, passes, prev, lastOp>>

\* line 125 moved out of the for loop: simplify() once the pass has replaced
\* its last unresolved cell
PropagateDeferred ==
    /\ pc = "propagate"
    /\ grid' = IF \A c \in DOMAIN grid.grid : c > idx => defined(grid)[c]
               THEN simplify(grid) ELSE grid
    /\ idx' = idx + 1
    /\ pc' = "for"
    /\ UNCHANGED <<shape, segments, board, good_set, new_grid,
                   options, passes, prev, lastOp, nsets>>

\* line 125, and on to the next idx
Propagate ==
    /\ pc = "propagate"
    /\ grid' = simplify(grid)
    /\ idx' = idx + 1
    /\ pc' = "for"
    /\ UNCHANGED <<shape, segments, board, good_set, new_grid,
                   options, passes, prev, lastOp, nsets>>

Next ==
    \/ SolverInit
    \/ Solve
    \/ While
    \/ For
    \/ Trials
    \/ Update
    \/ Propagate

Spec == Init /\ [][Next]_vars

-----------------------------------------------------------------------------
(* Claims on the constructor (SpecNew) *)

Cells(total) == 0..(total * total - 1)

\* a list of exactly total groups of exactly total coordinates, each within
\* the grid, covering every cell exactly once
ProperPartition(total, segs) ==
    /\ Len(segs) = total
    /\ \A g \in 1..Len(segs) : Len(segs[g]) = total
    /\ \A g \in 1..Len(segs) : \A k \in 1..Len(segs[g]) :
          segs[g][k][1] \in 0..(total - 1) /\ segs[g][k][2] \in 0..(total - 1)
    /\ \A r \in 0..(total - 1) : \A c \in 0..(total - 1) :
          Cardinality({p \in {<<g, k>> : g \in 1..Len(segs), k \in 1..total} :
                          segs[p[1]][p[2]] = <<r, c>>}) = 1

\* C5: a supplied region list that is not a proper partition (a missing or a
\* duplicated cell, a coordinate outside the grid, a wrong group count, no
\* groups at all) makes construction fail: no grid is produced.
C5_MalformedRejected ==
    (segments # None /\ ~ProperPartition(shape[1] * shape[2], segments[1]))
        => pc # "idle"

Family(g, f) == {g.areas[a] : a \in (f * Side(g) + 1)..((f + 1) * Side(g))}

\* C6: a constructed grid has 3*side areas of side distinct indices, and the
\* rows, the columns and the regions each hold every cell exactly once.
C6_AreasPartition ==
    pc = "idle" =>
        /\ Side(grid) = shape[1] * shape[2]
        /\ Len(grid.areas) = 3 * Side(grid)
        /\ \A a \in 1..Len(grid.areas) :
              /\ Len(grid.areas[a]) = Side(grid)
              /\ Cardinality(Range(grid.areas[a])) = Side(grid)
        /\ \A f \in 0..2 : \A c \in Cells(Side(grid)) :
              Cardinality({a \in (f * Side(grid) + 1)..((f + 1) * Side(grid)) :
                              c \in Range(grid.areas[a])}) = 1

C6_Witness ==
    /\ pc = "idle" /\ lastOp = "__init__"
    /\ shape = <<3, 2>>
    /\ segments = None
    /\ grid.areas[13] = <<0, 1, 6, 7, 12, 13>>

-----------------------------------------------------------------------------
(* Claims on the grid operations (SpecGrid) *)

Returned(op) == pc = "idle" /\ lastOp = op

AreasOf(g, c) == {a \in 1..Len(g.areas) : c \in Range(g.areas[a])}

Peers(g, c) == UNION {Range(g.areas[a]) : a \in AreasOf(g, c)} \ {c}

C1_Scenario ==
    /\ shape = <<2, 2>> /\ segments = None
    /\ Returned("simplify")
    /\ prev = [c \in Cells(4) |-> IF c = 0 THEN {1} ELSE 1..4]

\* C1: on the 4x4 grid with default blocks, all cells {1,2,3,4} except
\* (0,0) = {1}, one simplify() removes 1 from every other cell of the row,
\* the column and the region of (0,0).
C1_OneRemovedFromPeers ==
    C1_Scenario => \A c \in Peers(grid, 0) : 1 \notin grid.grid[c]

\* the relabellings of the cyclic solution of the m x n block grid
Assignments(m, n) ==
    {[c \in Cells(m * n) |-> p[BaseSolution(m, n)[c]]] : p \in Permutations(1..(m * n))}

\* s places every value exactly once in every area
Complete(g, s) ==
    \A a \in 1..Len(g.areas) :
        {s[g.areas[a][k]] : k \in 1..Len(g.areas[a])} = Range(g.values)

\* the complete assignments among them, by shape (default regions)
Completions ==
    [sh \in GridShapes |->
        {s \in Assignments(sh[1], sh[2]) : Complete(SudokuGrid(sh[1], sh[2], None), s)}]

Within(s, cells) == \A c \in DOMAIN cells : s[c] \in cells[c]

C7_PassesAtMostInitialSum ==
    Returned("simplify") => passes <= SumLen(prev, 0, Side(grid) * Side(grid) - 1)

\* C7 as amended: every pass leaves the sum of the set sizes no larger, a
\* pass after which the loop goes on has been paid for by a removed
\* candidate, and the last pass is the only one that removes nothing; so
\* simplify() ends after at most 1 + (sum at the call - sum at the end) passes.
C7_PassesBounded ==
    [][pc = "simplify" =>
         LET sum0 == SumLen(prev, 0, Side(grid) * Side(grid) - 1)
         IN /\ Options(grid') <= Options(grid)
            /\ passes' <= 1 + sum0 - Options(grid')
            /\ (pc' = "simplify" => passes' <= sum0 - Options(grid'))
            /\ (pc' = "idle" => Options(grid') = Options(grid))]_vars

C7_Witness ==
    /\ Returned("simplify")
    /\ passes = 3
    /\ Options(grid) < SumLen(prev, 0, Side(grid) * Side(grid) - 1)

\* C8: after simplify() has returned, a second simplify(), and a further
\* reduce_options() pass, leave every cell as it is.
C8_SimplifyIdempotent ==
    Returned("simplify") =>
        /\ simplify(grid).grid = grid.grid
        /\ reduce_options(grid).grid = grid.grid

C8_Witness ==
    /\ Returned("simplify")
    /\ passes >= 3
    /\ grid.grid # prev

\* C10: reduce_options() and simplify() leave a non-empty candidate set
\* non-empty and a singleton with the value it had.
C10_NonEmptyKept ==
    lastOp \in {"reduce_options", "simplify"} =>
        \A c \in DOMAIN prev :
            /\ prev[c] # {} => grid.grid[c] # {}
            /\ Cardinality(prev[c]) = 1 => grid.grid[c] = prev[c]

C10_Witness ==
    /\ Returned("simplify")
    /\ passes >= 2
    /\ \A c \in DOMAIN prev : prev[c] # {}
    /\ \E c \in DOMAIN prev : Cardinality(prev[c]) = 1
    /\ \E c \in DOMAIN prev : grid.grid[c] # prev[c] /\ Cardinality(grid.grid[c]) = 1

-----------------------------------------------------------------------------
(* Claims on the solver (Spec) *)

\* C2: every trial grid of the lookahead is a clone of the live grid: the
\* same side, the same cell indexing and the same areas, and the same cells
\* except the trial cell, which holds {v}.
C2_TrialIsClone ==
    pc = "update" =>
        \A v \in DOMAIN new_grid :
            /\ new_grid[v].dimensions = grid.dimensions
            /\ new_grid[v].areas = grid.areas
            /\ DOMAIN new_grid[v].grid = DOMAIN grid.grid
            /\ \A c \in DOMAIN grid.grid :
                  new_grid[v].grid[c] = IF c = idx THEN {v} ELSE grid.grid[c]

\* C4: when solve() returns the grid is solved: every cell is a singleton
\* and is_valid is true.
C4_ReturnedSolved ==
    pc = "return" =>
        /\ \A c \in DOMAIN grid.grid : Cardinality(grid.grid[c]) = 1
        /\ is_valid(grid)

\* C9 as stated: within a pass simplify() runs on the live grid only when no
\* unresolved cell is still to be replaced, and until then the cells the
\* pass has not reached are as the pass found them.
C9_PropagatedAfterLastUpdate ==
    /\ pc = "propagate" =>
          \A c \in DOMAIN grid.grid : c > idx => defined(grid)[c]
    /\ pc \in {"for", "trials", "update", "propagate"} =>
          \A c \in DOMAIN grid.grid : c > idx => grid.grid[c] = prev[c]

\* C9 as amended: simplify() runs on the live grid after each replacement,
\* so whenever the trials of a cell are made every earlier replacement of
\* the pass has been propagated: a reduce_options() pass changes nothing.
C9_TrialsSeePropagated ==
    pc = "trials" => reduce_options(grid).grid = grid.grid

C9_Witness ==
    /\ pc = "trials"
    /\ \E c \in DOMAIN grid.grid : c < idx /\ grid.grid[c] # prev[c]

=============================================================================
